---- MODULE Spec2Model ----
(***************************************************************************)
(* DevForge PM agent (src/agents/pm/pm_agent.py).                          *)
(*                                                                         *)
(* Two specifications share this module:                                   *)
(*   Spec     the command-line entry point run by several processes        *)
(*            against one artifact root ("projects"), step by step, from   *)
(*            a root that is absent, a plain file, empty, or holds         *)
(*            entries left there earlier;                                  *)
(*   SpecGen  the generators and the README renderer applied to a bounded  *)
(*            set of idea strings and tech-stack arguments, and            *)
(*            _generate_acceptance_criteria applied to the same texts as   *)
(*            story actions.                                               *)
(*                                                                         *)
(* Text that the code searches or interpolates is a sequence of            *)
(* one-character strings; text that is only carried along is a string.     *)
(***************************************************************************)
EXTENDS Integers, Sequences, FiniteSets, TLC

\* ------------------------------------------------------------------------
\* Bounds of the model
\* ------------------------------------------------------------------------
\* number of concurrent runs of the entry point
NumProcs == 2
\* largest number of entries the artifact root holds before the first run
MaxInitEntries == 1
\* largest sequence number of a feat_<date>_<seq> entry held before the first run
MaxInitSeq == 2
\* largest number of pieces a probed text is assembled from
MaxPieces == 2

\* ------------------------------------------------------------------------
\* Text: str.lower(), the `in` substring test, concatenation
\* ------------------------------------------------------------------------
UpperLetters == <<"A","B","C","D","E","F","G","H","I","J","K","L","M",
                  "N","O","P","Q","R","S","T","U","V","W","X","Y","Z">>

LowerLetters == <<"a","b","c","d","e","f","g","h","i","j","k","l","m",
                  "n","o","p","q","r","s","t","u","v","w","x","y","z">>

\* one character of str.lower()
LowerChar(c) ==
  IF \E i \in 1..26 : UpperLetters[i] = c
    THEN LowerLetters[CHOOSE i \in 1..26 : UpperLetters[i] = c]
    ELSE c

\* str.lower()
Lower(text) == [i \in 1..Len(text) |-> LowerChar(text[i])]

\* `word in text`
Contains(text, word) ==
  \E i \in 1..(Len(text) - Len(word) + 1) :
    SubSeq(text, i, i + Len(word) - 1) = word

\* the three trigger words of _generate_acceptance_criteria
account == <<"a","c","c","o","u","n","t">>

manage == <<"m","a","n","a","g","e">>

analytics == <<"a","n","a","l","y","t","i","c","s">>

\* ------------------------------------------------------------------------
\* _create_feature_spec
\* ------------------------------------------------------------------------
feature_types ==
  {"web_application", "mobile_app", "api_service",
   "cli_tool", "data_pipeline", "automation_script"}

\* the outcomes of random.choice that the concurrent runs are explored with
RunTypes == {"web_application", "automation_script"}

DescPrefix == <<"A"," ","c","o","m","p","r","e","h","e","n","s","i","v","e"," ",
                "s","o","l","u","t","i","o","n"," ","f","o","r"," ">>

CorePrefix == <<"C","o","r","e"," ">>

FuncSuffix == <<" ","f","u","n","c","t","i","o","n","a","l","i","t","y">>

DefaultTechStack == "Modern web stack (TBD by Dev team)"

\* an optional argument is <<>> (None) or <<value>>
None == <<>>

\* `tech_stack or "Modern web stack (TBD by Dev team)"`: None and "" are falsy
TechStackOrDefault(tech_stack) ==
  IF tech_stack = None \/ tech_stack = <<"">>
    THEN DefaultTechStack
    ELSE tech_stack[1]

\* the choice of random.choice(feature_types) is the parameter `type`
CreateFeatureSpec(idea, tech_stack, type) ==
  [ title           |-> idea,
    description     |-> DescPrefix \o idea,
    type            |-> type,
    tech_stack      |-> TechStackOrDefault(tech_stack),
    mvp_features    |-> << CorePrefix \o idea \o FuncSuffix,
                           "User authentication",
                           "Basic CRUD operations",
                           "Simple dashboard" >>,
    v2_features     |-> << "Advanced analytics",
                           "Third-party integrations",
                           "Mobile responsiveness",
                           "Performance optimizations" >>,
    target_users    |-> "End users and administrators",
    success_metrics |-> << "User adoption rate",
                           "Feature completion",
                           "Performance benchmarks" >> ]

\* ------------------------------------------------------------------------
\* _generate_user_stories
\* ------------------------------------------------------------------------
AccessPrefix == <<"I"," ","w","a","n","t"," ","t","o"," ","a","c","c","e","s","s"," ">>

ActionCreateAccount ==
  <<"I"," ","w","a","n","t"," ","t","o"," ","c","r","e","a","t","e"," ",
    "a","n"," ","a","c","c","o","u","n","t">>

ActionManageContent ==
  <<"I"," ","w","a","n","t"," ","t","o"," ","m","a","n","a","g","e"," ",
    "m","y"," ","c","o","n","t","e","n","t">>

ActionViewAnalytics ==
  <<"I"," ","w","a","n","t"," ","t","o"," ","v","i","e","w"," ",
    "u","s","e","r"," ","a","n","a","l","y","t","i","c","s">>

ActionExportData ==
  <<"I"," ","w","a","n","t"," ","t","o"," ","e","x","p","o","r","t"," ",
    "m","y"," ","d","a","t","a">>

ActionNotifications ==
  <<"I"," ","w","a","n","t"," ","t","o"," ","r","e","c","e","i","v","e"," ",
    "n","o","t","i","f","i","c","a","t","i","o","n","s">>

Story(id, role, action, benefit, priority, points) ==
  [ id |-> id, role |-> role, action |-> action, benefit |-> benefit,
    priority |-> priority, story_points |-> points ]

\* a story list whose third story would manage the account, not the content
GenerateUserStories_ManageAccount(spec) ==
  << Story("US-001", "As a user", AccessPrefix \o spec.title,
           "So that I can use the core functionality", "high", 3),
     Story("US-002", "As a user", ActionCreateAccount,
           "So that I can save my data", "high", 5),
     Story("US-003", "As a user", SubSeq(ActionManageContent, 1, 20) \o account,
           "So that I can organize my work", "high", 5),
     Story("US-004", "As an admin", ActionViewAnalytics,
           "So that I can understand usage patterns", "medium", 8),
     Story("US-005", "As a user", ActionExportData,
           "So that I can use it elsewhere", "low", 3),
     Story("US-006", "As a user", ActionNotifications,
           "So that I stay updated", "low", 5) >>

\* the four MVP stories, then the two V2 stories
GenerateUserStories(spec) ==
  << Story("US-001", "As a user", AccessPrefix \o spec.title,
           "So that I can use the core functionality", "high", 3),
     Story("US-002", "As a user", ActionCreateAccount,
           "So that I can save my data", "high", 5),
     Story("US-003", "As a user", ActionManageContent,
           "So that I can organize my work", "high", 5),
     Story("US-004", "As an admin", ActionViewAnalytics,
           "So that I can understand usage patterns", "medium", 8) >>
  \o
  << Story("US-005", "As a user", ActionExportData,
           "So that I can use it elsewhere", "low", 3),
     Story("US-006", "As a user", ActionNotifications,
           "So that I stay updated", "low", 5) >>

\* ------------------------------------------------------------------------
\* _generate_acceptance_criteria
\* ------------------------------------------------------------------------
AuthChecklist ==
  << "User can register with email/password",
     "User can login with credentials",
     "User can logout",
     "Password must be at least 8 characters",
     "User receives confirmation email" >>

CrudChecklist ==
  << "User can create new items",
     "User can read/view items",
     "User can update items",
     "User can delete items",
     "Changes persist after refresh" >>

DashboardChecklist ==
  << "Dashboard displays user count",
     "Charts show activity over time",
     "Data updates in real-time",
     "Export function works" >>

GenericChecklist ==
  << "Feature is accessible from main navigation",
     "Feature works on desktop and mobile",
     "Response time is under 2 seconds",
     "Error handling is implemented" >>

\* a chain that tests "manage" before "account"
StoryCriteria_ManageFirst(action) ==
  IF Contains(Lower(action), manage) THEN CrudChecklist
  ELSE IF Contains(Lower(action), account) THEN AuthChecklist
  ELSE IF Contains(Lower(action), analytics) THEN DashboardChecklist
  ELSE GenericChecklist

\* the if / elif / elif / else chain of the loop body
StoryCriteria(action) ==
  IF Contains(Lower(action), account) THEN AuthChecklist
  ELSE IF Contains(Lower(action), manage) THEN CrudChecklist
  ELSE IF Contains(Lower(action), analytics) THEN DashboardChecklist
  ELSE GenericChecklist

\* criteria[story['id']] = {...} for each story in order: a later story with
\* the same id replaces an earlier one
GenerateAcceptanceCriteria(spec, stories) ==
  [ id \in { stories[i].id : i \in 1..Len(stories) } |->
      LET last  == CHOOSE i \in 1..Len(stories) :
                     /\ stories[i].id = id
                     /\ \A j \in 1..Len(stories) : stories[j].id = id => j <= i
          story == stories[last]
      IN  [ story |-> story.action, criteria |-> StoryCriteria(story.action) ] ]

\* ------------------------------------------------------------------------
\* _generate_technical_requirements
\* ------------------------------------------------------------------------
Requirement(category, requirement, technologies, priority) ==
  [ category |-> category, requirement |-> requirement,
    technologies |-> technologies, priority |-> priority ]

\* a generator that stops after the Authentication row
GenerateTechnicalRequirements_FourRows(spec, tech_stack) ==
  << Requirement("Frontend", "Responsive web interface",
                 <<"React", "Vue", "Angular">>, "high"),
     Requirement("Backend", "RESTful API",
                 <<"Node.js/Express", "Python/FastAPI", "Go">>, "high"),
     Requirement("Database", "Persistent data storage",
                 <<"PostgreSQL", "MongoDB", "SQLite">>, "high"),
     Requirement("Authentication", "Secure user authentication",
                 <<"JWT", "OAuth2", "Session-based">>, "high") >>

\* six appends: Frontend, Backend, Database, Authentication, Testing, Deployment
GenerateTechnicalRequirements(spec, tech_stack) ==
  << Requirement("Frontend", "Responsive web interface",
                 <<"React", "Vue", "Angular">>, "high"),
     Requirement("Backend", "RESTful API",
                 <<"Node.js/Express", "Python/FastAPI", "Go">>, "high"),
     Requirement("Database", "Persistent data storage",
                 <<"PostgreSQL", "MongoDB", "SQLite">>, "high"),
     Requirement("Authentication", "Secure user authentication",
                 <<"JWT", "OAuth2", "Session-based">>, "high"),
     Requirement("Testing", "Automated test coverage",
                 <<"Jest", "PyTest", "Cypress">>, "medium"),
     Requirement("Deployment", "Containerized deployment",
                 <<"Docker", "Docker Compose">>, "medium") >>

\* ------------------------------------------------------------------------
\* _generate_api_spec
\* ------------------------------------------------------------------------
Credentials == [ email |-> "string", password |-> "string" ]

Session == [ token |-> "string", user |-> "object" ]

ItemBody == [ title |-> "string", content |-> "string" ]

GenerateApiSpec(spec) ==
  [ version  |-> "v1",
    base_url |-> "/api/v1",
    endpoints |->
      << [ path |-> "/auth/register", method |-> "POST",
           description |-> "Register new user",
           request |-> Credentials, response |-> Session ],
         [ path |-> "/auth/login", method |-> "POST",
           description |-> "User login",
           request |-> Credentials, response |-> Session ],
         [ path |-> "/items", method |-> "GET",
           description |-> "List all items", auth |-> TRUE,
           response |-> [ items |-> "array" ] ],
         [ path |-> "/items", method |-> "POST",
           description |-> "Create new item", auth |-> TRUE,
           request |-> ItemBody, response |-> [ item |-> "object" ] ],
         [ path |-> "/items/:id", method |-> "GET",
           description |-> "Get single item", auth |-> TRUE,
           response |-> [ item |-> "object" ] ],
         [ path |-> "/items/:id", method |-> "PUT",
           description |-> "Update item", auth |-> TRUE,
           request |-> ItemBody, response |-> [ item |-> "object" ] ],
         [ path |-> "/items/:id", method |-> "DELETE",
           description |-> "Delete item", auth |-> TRUE,
           response |-> [ success |-> "boolean" ] ] >> ]

\* ------------------------------------------------------------------------
\* _generate_database_schema
\* ------------------------------------------------------------------------
GenerateDatabaseSchema(spec) ==
  [ database |-> "PostgreSQL",
    tables |->
      << [ name |-> "users",
           columns |->
             << [ name |-> "id", type |-> "UUID", primary_key |-> TRUE ],
                [ name |-> "email", type |-> "VARCHAR(255)", unique |-> TRUE ],
                [ name |-> "password_hash", type |-> "VARCHAR(255)" ],
                [ name |-> "created_at", type |-> "TIMESTAMP" ],
                [ name |-> "updated_at", type |-> "TIMESTAMP" ] >> ],
         [ name |-> "items",
           columns |->
             << [ name |-> "id", type |-> "UUID", primary_key |-> TRUE ],
                [ name |-> "user_id", type |-> "UUID", foreign_key |-> "users.id" ],
                [ name |-> "title", type |-> "VARCHAR(255)" ],
                [ name |-> "content", type |-> "TEXT" ],
                [ name |-> "status", type |-> "VARCHAR(50)" ],
                [ name |-> "created_at", type |-> "TIMESTAMP" ],
                [ name |-> "updated_at", type |-> "TIMESTAMP" ] >> ] >> ]

\* ------------------------------------------------------------------------
\* generate_feature, lines 51-81: the generators in order and the record
\* ------------------------------------------------------------------------
BuildFeatureData(feature_id, project_idea, tech_stack, type, now) ==
  LET spec      == CreateFeatureSpec(project_idea, tech_stack, type)
      stories   == GenerateUserStories(spec)
      criteria  == GenerateAcceptanceCriteria(spec, stories)
      tech_reqs == GenerateTechnicalRequirements(spec, tech_stack)
      api_spec  == GenerateApiSpec(spec)
      db_schema == GenerateDatabaseSchema(spec)
  IN  [ id                     |-> feature_id,
        idea                   |-> project_idea,
        specification          |-> spec,
        user_stories           |-> stories,
        acceptance_criteria    |-> criteria,
        technical_requirements |-> tech_reqs,
        api_specification      |-> api_spec,
        database_schema        |-> db_schema,
        status                 |-> "spec_ready",
        created_at             |-> now,
        pm_agent               |-> "v1.0" ]

\* ------------------------------------------------------------------------
\* _generate_readme: the document as its sequence of lines.  Each kind of
\* line is a record of its own shape, holding the values the f-string
\* interpolates.
\* ------------------------------------------------------------------------
Text(s) == [ text |-> s ]

\* a slice that shows every story
FirstFour_All(stories) == stories

\* data['user_stories'][:4]
FirstFour(stories) ==
  SubSeq(stories, 1, IF Len(stories) < 4 THEN Len(stories) ELSE 4)

\* the lines of one pass of the story loop
StoryLines(data, story) ==
  << [ story |-> story.id, priority |-> story.priority ],
     Text(""),
     [ role |-> story.role, action |-> story.action ],
     [ benefit |-> story.benefit ],
     Text(""),
     [ points |-> story.story_points ],
     Text("") >>
  \o
  ( IF story.id \in DOMAIN data.acceptance_criteria
      THEN << Text("**Acceptance Criteria:**") >>
           \o [ i \in 1..Len(data.acceptance_criteria[story.id].criteria) |->
                  [ check |-> data.acceptance_criteria[story.id].criteria[i] ] ]
           \o << Text("") >>
      ELSE << >> )

RECURSIVE AllStoryLines(_, _)
AllStoryLines(data, stories) ==
  IF stories = << >> THEN << >>
  ELSE StoryLines(data, Head(stories)) \o AllStoryLines(data, Tail(stories))

EndpointLines(endpoint) ==
  << [ method |-> endpoint.method, path |-> endpoint.path ],
     [ description |-> endpoint.description ],
     Text("") >>

RECURSIVE AllEndpointLines(_)
AllEndpointLines(endpoints) ==
  IF endpoints = << >> THEN << >>
  ELSE EndpointLines(Head(endpoints)) \o AllEndpointLines(Tail(endpoints))

GenerateReadme(data) ==
  LET spec == data.specification
  IN  << [ h1 |-> spec.title ],
         Text(""),
         Text("## Description"),
         [ chars |-> spec.description ],
         Text(""),
         Text("## Tech Stack"),
         Text(spec.tech_stack),
         Text(""),
         Text("## MVP Features") >>
      \o [ i \in 1..Len(spec.mvp_features) |-> [ bullet |-> spec.mvp_features[i] ] ]
      \o << Text(""), Text("## User Stories"), Text("") >>
      \o AllStoryLines(data, FirstFour(data.user_stories))
      \o << Text(""), Text("## API Endpoints"), Text("") >>
      \o AllEndpointLines(data.api_specification.endpoints)
      \o << Text(""), Text("## Status"),
            [ status |-> data.status ],
            [ created |-> data.created_at ],
            Text("- Next Step: Awaiting development") >>

\* ------------------------------------------------------------------------
\* _generate_feature_id: strftime("%Y%m%d"), glob("feat_*"), "{:04d}"
\* ------------------------------------------------------------------------
\* the calendar dates the clock passes through, as strftime("%Y%m%d") prints them
Dates == <<"20261101", "20261102">>

DigitChars == <<"0","1","2","3","4","5","6","7","8","9">>

\* the decimal digits of a natural number
RECURSIVE Digits(_)
Digits(n) ==
  IF n < 10 THEN << DigitChars[n + 1] >>
  ELSE Digits(n \div 10) \o << DigitChars[(n % 10) + 1] >>

\* format spec 04d: zero-padded to at least four digits, never truncated
Format04d(n) ==
  LET ds == Digits(n)
  IN  IF Len(ds) >= 4 THEN ds ELSE [ i \in 1..(4 - Len(ds)) |-> "0" ] \o ds

\* a directory entry name is the sequence of its parts
FeatureId(timestamp, existing) ==
  << "feat_", timestamp, "_" >> \o Format04d(existing + 1)

\* Path.glob("feat_*") matches every entry whose name starts with feat_,
\* directory or not
GlobFeat(entries) == { n \in entries : n[1] = "feat_" }

\* ------------------------------------------------------------------------
\* The file system under the artifact root, and the processes
\* ------------------------------------------------------------------------
Procs == 1..NumProcs

SpecFile == "feature_spec.json"

ReadmeFile == "README.md"

NoFiles == [ f \in {} |-> << >> ]

NewDir == [ kind |-> "dir", files |-> NoFiles ]

PlainFile == [ kind |-> "file", files |-> NoFiles ]

\* entries a root may hold before the first run: feature directories left
\* by earlier runs (of the first date), a plain file named like a feature
\* identifier, an entry the glob matches that is no feature identifier, and
\* an entry the glob does not match
InitEntries ==
  { << FeatureId(Dates[1], s - 1), NewDir >> : s \in 1..MaxInitSeq }
    \cup { << FeatureId(Dates[1], MaxInitSeq - 1), PlainFile >>,
           << << "feat_", "notes" >>, PlainFile >>,
           << << "tmp_", "scratch" >>, NewDir >> }

\* the roots of at most MaxInitEntries of these entries, no name twice
InitRoots ==
  { [ n \in { e[1] : e \in S } |-> (CHOOSE e \in S : e[1] = n)[2] ] :
      S \in { T \in SUBSET InitEntries :
                /\ Cardinality(T) <= MaxInitEntries
                /\ \A e1, e2 \in T : e1[1] = e2[1] => e1 = e2 } }

\* the ideas and command lines of the runs
IdeaTask == <<"T","a","s","k"," ","a","p","p">>

IdeaAccountManager == <<"A","c","c","o","u","n","t"," ","m","a","n","a","g","e","r">>

ArgvChoices ==
  { << "pm_agent.py" >>,
    << "pm_agent.py", IdeaTask >>,
    << "pm_agent.py", IdeaAccountManager, "React, Node.js" >> }

VARIABLES
  clock,          \* index in Dates of the current date
  rootKind,       \* "absent", "dir" or "file": what the path "projects" is
  fs,             \* entry name -> entry, the content of the artifact root
  pc,             \* process -> its position in __main__
  argv,           \* process -> sys.argv
  agent,          \* process -> whether PMAgent() has been constructed
  feature_id,     \* process -> the identifier allocated (<< >> before)
  feature_data,   \* process -> the record built (<< >> before)
  stdout,         \* process -> what it has printed, one tag per print
  exit,           \* process -> how it ended (<< >> while running)
  existedAtStart, \* process -> the entries present when generate_feature began
  doneBefore,     \* process -> the runs completed when generate_feature began
  created,        \* process -> the paths it has created
  touched,        \* process -> the files it has opened for writing
  gpc,            \* SpecGen: "input", "generated", "rendered" or "probed"
  text,           \* SpecGen: the idea string or the probed story action
  tech,           \* SpecGen: the tech-stack argument
  data,           \* SpecGen: the record generate_feature builds
  readme,         \* SpecGen: the lines _generate_readme returns
  criteria        \* SpecGen: what _generate_acceptance_criteria returns

pvars == << clock, rootKind, fs, pc, argv, agent, feature_id, feature_data,
            stdout, exit, existedAtStart, doneBefore, created, touched >>

gvars == << gpc, text, tech, data, readme, criteria >>

vars == << pvars, gvars >>

\* ------------------------------------------------------------------------
\* File-system operations
\* ------------------------------------------------------------------------
\* the entry `name` added to, or replaced in, the root
WithEntry(root, name, entry) ==
  [ n \in DOMAIN root \cup {name} |-> IF n = name THEN entry ELSE root[n] ]

\* the file `file` of directory `dir` set to `content`
WithFile(root, dir, file, content) ==
  WithEntry(root, dir,
    [ kind  |-> "dir",
      files |-> [ f \in DOMAIN root[dir].files \cup {file} |->
                    IF f = file THEN content ELSE root[dir].files[f] ] ])

\* open(path, 'w'): the file is created, or truncated to nothing
Truncated == << >>

\* write at offset 0 and close.  A file nobody wrote since this writer's
\* open holds exactly what is written.  A file another writer filled in the
\* meantime is overwritten from its start: its bytes beyond the length of
\* what is written stay, so either nothing of it is left or its tail is.
WriteOutcomes(old, content) ==
  IF old = Truncated THEN { << content >> }
  ELSE { << content >>, << content >> \o old }

\* ------------------------------------------------------------------------
\* Initial state of the runs
\* ------------------------------------------------------------------------
Running == [ kind |-> "running" ]

PipeInit ==
  /\ clock = 1
  /\ rootKind \in {"absent", "dir", "file"}
  /\ fs \in InitRoots
  /\ rootKind # "dir" => fs = NoFiles
  /\ pc = [ p \in Procs |-> "main" ]
  /\ argv \in [ Procs -> ArgvChoices ]
  /\ agent = [ p \in Procs |-> FALSE ]
  /\ feature_id = [ p \in Procs |-> << >> ]
  /\ feature_data = [ p \in Procs |-> << >> ]
  /\ stdout = [ p \in Procs |-> << >> ]
  /\ exit = [ p \in Procs |-> Running ]
  /\ existedAtStart = [ p \in Procs |-> {} ]
  /\ doneBefore = [ p \in Procs |-> {} ]
  /\ created = [ p \in Procs |-> {} ]
  /\ touched = [ p \in Procs |-> {} ]

\* ------------------------------------------------------------------------
\* The steps of __main__, one process at a time
\* ------------------------------------------------------------------------
\* an uncaught exception: traceback, exit status 1
Raise(p, error) ==
  /\ pc' = [ pc EXCEPT ![p] = "exited" ]
  /\ exit' = [ exit EXCEPT ![p] = [ kind |-> "exception", error |-> error, status |-> 1 ] ]

\* the date passes
Tick ==
  /\ clock < Len(Dates)
  /\ clock' = clock + 1
  /\ UNCHANGED << rootKind, fs, pc, argv, agent, feature_id, feature_data,
                  stdout, exit, existedAtStart, doneBefore, created, touched >>
  /\ UNCHANGED gvars

\* an argument check that also demands the tech-stack argument
Main_NeedsTechStack(p) ==
  /\ pc[p] = "main"
  /\ IF Len(argv[p]) < 3
       THEN /\ stdout' = [ stdout EXCEPT ![p] = @ \o << "usage", "example" >> ]
            /\ exit' = [ exit EXCEPT ![p] = [ kind |-> "usage", status |-> 1 ] ]
            /\ pc' = [ pc EXCEPT ![p] = "exited" ]
       ELSE /\ pc' = [ pc EXCEPT ![p] = "construct" ]
            /\ UNCHANGED << stdout, exit >>
  /\ UNCHANGED << clock, rootKind, fs, argv, agent, feature_id, feature_data,
                  existedAtStart, doneBefore, created, touched >>
  /\ UNCHANGED gvars

\* lines 440-446: the argument check
Main(p) ==
  /\ pc[p] = "main"
  /\ IF Len(argv[p]) < 2
       THEN /\ stdout' = [ stdout EXCEPT ![p] = @ \o << "usage", "example" >> ]
            /\ exit' = [ exit EXCEPT ![p] = [ kind |-> "usage", status |-> 1 ] ]
            /\ pc' = [ pc EXCEPT ![p] = "exited" ]
       ELSE /\ pc' = [ pc EXCEPT ![p] = "construct" ]
            /\ UNCHANGED << stdout, exit >>
  /\ UNCHANGED << clock, rootKind, fs, argv, agent, feature_id, feature_data,
                  existedAtStart, doneBefore, created, touched >>
  /\ UNCHANGED gvars

\* line 448, PMAgent(): Path("projects").mkdir(exist_ok=True).  The mapping
\* _load_config returns is stored and never read again, and loading it
\* writes nothing; it is not part of the state.
Construct(p) ==
  /\ pc[p] = "construct"
  /\ IF rootKind = "file"
       THEN /\ Raise(p, "FileExistsError")
            /\ UNCHANGED << rootKind, agent, created >>
       ELSE /\ rootKind' = "dir"
            /\ agent' = [ agent EXCEPT ![p] = TRUE ]
            /\ created' = [ created EXCEPT ![p] =
                              IF rootKind = "absent" THEN @ \cup { << "projects" >> } ELSE @ ]
            /\ pc' = [ pc EXCEPT ![p] = "alloc" ]
            /\ UNCHANGED exit
  /\ UNCHANGED << clock, fs, argv, feature_id, feature_data, stdout,
                  existedAtStart, doneBefore, touched >>
  /\ UNCHANGED gvars

\* line 43, _generate_feature_id: the date, the count of feat_* entries
GenerateFeatureId(p) ==
  /\ pc[p] = "alloc"
  /\ LET timestamp == Dates[clock]
         existing  == Cardinality(GlobFeat(DOMAIN fs))
     IN  feature_id' = [ feature_id EXCEPT ![p] = FeatureId(timestamp, existing) ]
  /\ existedAtStart' = [ existedAtStart EXCEPT ![p] = DOMAIN fs ]
  /\ doneBefore' = [ doneBefore EXCEPT ![p] =
                       { q \in Procs : pc[q] = "exited" /\ exit[q].kind = "end" } ]
  /\ pc' = [ pc EXCEPT ![p] = "mkdir" ]
  /\ UNCHANGED << clock, rootKind, fs, argv, agent, feature_data, stdout, exit,
                  created, touched >>
  /\ UNCHANGED gvars

\* lines 44-45: the root after feature_dir.mkdir(exist_ok=True) succeeds
MakeFeatureDir(root, name) ==
  IF name \in DOMAIN root THEN root ELSE WithEntry(root, name, NewDir)

\* a mkdir without exist_ok=True: any existing entry raises
Mkdir_NoExistOk(p) ==
  /\ pc[p] = "mkdir"
  /\ IF feature_id[p] \in DOMAIN fs
       THEN /\ Raise(p, "FileExistsError")
            /\ UNCHANGED << fs, created >>
       ELSE /\ fs' = MakeFeatureDir(fs, feature_id[p])
            /\ created' = [ created EXCEPT ![p] = @ \cup { feature_id[p] } ]
            /\ pc' = [ pc EXCEPT ![p] = "generate" ]
            /\ UNCHANGED exit
  /\ UNCHANGED << clock, rootKind, argv, agent, feature_id, feature_data, stdout,
                  existedAtStart, doneBefore, touched >>
  /\ UNCHANGED gvars

\* lines 44-45, the step
Mkdir(p) ==
  /\ pc[p] = "mkdir"
  /\ IF feature_id[p] \in DOMAIN fs /\ fs[feature_id[p]].kind = "file"
       THEN /\ Raise(p, "FileExistsError")
            /\ UNCHANGED << fs, created >>
       ELSE /\ fs' = MakeFeatureDir(fs, feature_id[p])
            /\ created' = [ created EXCEPT ![p] =
                              IF feature_id[p] \in DOMAIN fs THEN @ ELSE @ \cup { feature_id[p] } ]
            /\ pc' = [ pc EXCEPT ![p] = "generate" ]
            /\ UNCHANGED exit
  /\ UNCHANGED << clock, rootKind, argv, agent, feature_id, feature_data, stdout,
                  existedAtStart, doneBefore, touched >>
  /\ UNCHANGED gvars

\* lines 47-81: the two progress lines, the generators, the record
Generate(p) ==
  /\ pc[p] = "generate"
  /\ \E type \in RunTypes :
       feature_data' = [ feature_data EXCEPT ![p] =
         BuildFeatureData(feature_id[p], argv[p][2],
                          IF Len(argv[p]) > 2 THEN << argv[p][3] >> ELSE None,
                          type, Dates[clock]) ]
  /\ stdout' = [ stdout EXCEPT ![p] = @ \o << "analyzing", "idea" >> ]
  /\ pc' = [ pc EXCEPT ![p] = "open_spec" ]
  /\ UNCHANGED << clock, rootKind, fs, argv, agent, feature_id, exit,
                  existedAtStart, doneBefore, created, touched >>
  /\ UNCHANGED gvars

\* a save that writes the summary document before the structured file
SaveOrder_ReadmeFirst == << ReadmeFile, SpecFile >>

\* the files _save_feature writes, in the order of its two with blocks
SaveOrder == << SpecFile, ReadmeFile >>

\* what _save_feature writes into a file of the artifact directory
FileContent(file, record) ==
  IF file = SpecFile THEN record ELSE GenerateReadme(record)

\* an open(..., 'w') of _save_feature
OpenFile(p, file, next) ==
  /\ fs' = WithFile(fs, feature_id[p], file, Truncated)
  /\ touched' = [ touched EXCEPT ![p] = @ \cup { << feature_id[p], file >> } ]
  /\ pc' = [ pc EXCEPT ![p] = next ]
  /\ UNCHANGED << clock, rootKind, argv, agent, feature_id, feature_data, stdout,
                  exit, existedAtStart, doneBefore, created >>
  /\ UNCHANGED gvars

\* the write and the close that ends a with block of _save_feature
CloseFile(p, file, next) ==
  /\ \E content \in WriteOutcomes(fs[feature_id[p]].files[file],
                                  FileContent(file, feature_data[p])) :
       fs' = WithFile(fs, feature_id[p], file, content)
  /\ pc' = [ pc EXCEPT ![p] = next ]
  /\ UNCHANGED << clock, rootKind, argv, agent, feature_id, feature_data, stdout,
                  exit, existedAtStart, doneBefore, created, touched >>
  /\ UNCHANGED gvars

\* line 387
OpenSpec(p) == pc[p] = "open_spec" /\ OpenFile(p, SaveOrder[1], "dump_spec")

\* line 388 and the end of the with block
DumpSpec(p) == pc[p] = "dump_spec" /\ CloseFile(p, SaveOrder[1], "open_readme")

\* line 391
OpenReadme(p) == pc[p] = "open_readme" /\ OpenFile(p, SaveOrder[2], "write_readme")

\* line 392 and the end of the with block
WriteReadme(p) == pc[p] = "write_readme" /\ CloseFile(p, SaveOrder[2], "finish")

\* lines 85-90 and 451-452: the summary lines, the return, the end of the run
Finish(p) ==
  /\ pc[p] = "finish"
  /\ stdout' = [ stdout EXCEPT ![p] =
                   @ \o << "specified", "stories", "criteria", "requirements",
                           "saved", "view" >> ]
  /\ exit' = [ exit EXCEPT ![p] = [ kind |-> "end", status |-> 0 ] ]
  /\ pc' = [ pc EXCEPT ![p] = "exited" ]
  /\ UNCHANGED << clock, rootKind, fs, argv, agent, feature_id, feature_data,
                  existedAtStart, doneBefore, created, touched >>
  /\ UNCHANGED gvars

Next ==
  \/ Tick
  \/ \E p \in Procs :
       \/ Main(p)
       \/ Construct(p)
       \/ GenerateFeatureId(p)
       \/ Mkdir(p)
       \/ Generate(p)
       \/ OpenSpec(p)
       \/ DumpSpec(p)
       \/ OpenReadme(p)
       \/ WriteReadme(p)
       \/ Finish(p)

\* ------------------------------------------------------------------------
\* SpecGen: the generators on their own
\* ------------------------------------------------------------------------
\* pieces of text: the trigger words in several cases, fragments of them
\* that join to a trigger word, and words that hold none
Pieces ==
  << account,
     <<"A","c","c","o","u","n","t">>,
     manage,
     <<"M","A","N","A","G","E">>,
     analytics,
     <<"a","c","c">>,
     <<"o","u","n","t">>,
     <<"T","a","s","k"," ","a","p","p">> >>

RECURSIVE TextsOf(_)
TextsOf(n) ==
  IF n = 0 THEN { << >> }
  ELSE LET shorter == TextsOf(n - 1)
       IN  shorter \cup { t \o Pieces[i] : t \in shorter, i \in 1..Len(Pieces) }

Texts == TextsOf(MaxPieces)

TechStacks == { None, << "" >>, << "React, Node.js" >> }

GenIdle ==
  /\ gpc = "idle"
  /\ text = << >>
  /\ tech = None
  /\ data = << >>
  /\ readme = << >>
  /\ criteria = << >>

GenInit ==
  /\ gpc = "input"
  /\ text \in Texts
  /\ tech \in TechStacks
  /\ data = << >>
  /\ readme = << >>
  /\ criteria = << >>

\* generate_feature's record for the idea `text`
GenGenerate ==
  /\ gpc = "input"
  /\ \E type \in feature_types :
       data' = BuildFeatureData(FeatureId(Dates[1], 0), text, tech, type, Dates[1])
  /\ gpc' = "generated"
  /\ UNCHANGED << text, tech, readme, criteria >>
  /\ UNCHANGED pvars

\* _generate_readme on that record
GenRender ==
  /\ gpc = "generated"
  /\ readme' = GenerateReadme(data)
  /\ gpc' = "rendered"
  /\ UNCHANGED << text, tech, data, criteria >>
  /\ UNCHANGED pvars

\* _generate_acceptance_criteria on one story whose action is `text`
GenProbe ==
  /\ gpc = "input"
  /\ criteria' = GenerateAcceptanceCriteria(
                   << >>, << Story("US-001", "As a user", text, "", "high", 1) >>)
  /\ gpc' = "probed"
  /\ UNCHANGED << text, tech, data, readme >>
  /\ UNCHANGED pvars

NextGen == GenGenerate \/ GenRender \/ GenProbe

PipeIdle ==
  /\ clock = 1
  /\ rootKind = "absent"
  /\ fs = NoFiles
  /\ pc = [ p \in Procs |-> "exited" ]
  /\ argv = [ p \in Procs |-> << "pm_agent.py" >> ]
  /\ agent = [ p \in Procs |-> FALSE ]
  /\ feature_id = [ p \in Procs |-> << >> ]
  /\ feature_data = [ p \in Procs |-> << >> ]
  /\ stdout = [ p \in Procs |-> << >> ]
  /\ exit = [ p \in Procs |-> Running ]
  /\ existedAtStart = [ p \in Procs |-> {} ]
  /\ doneBefore = [ p \in Procs |-> {} ]
  /\ created = [ p \in Procs |-> {} ]
  /\ touched = [ p \in Procs |-> {} ]

\* ------------------------------------------------------------------------
\* The specifications
\* ------------------------------------------------------------------------
Init == PipeInit /\ GenIdle

Spec == Init /\ [][Next]_vars

InitGen == GenInit /\ PipeIdle

SpecGen == InitGen /\ [][NextGen]_vars

\* ========================================================================
\* Properties
\* ========================================================================
\* helpers of the properties ---------------------------------------------
DigitValue(c) == (CHOOSE i \in 1..10 : DigitChars[i] = c) - 1

RECURSIVE ParseDigits(_)
ParseDigits(ds) ==
  IF ds = << >> THEN 0
  ELSE ParseDigits(SubSeq(ds, 1, Len(ds) - 1)) * 10 + DigitValue(ds[Len(ds)])

\* the number printed after feat_<date>_
SequenceNumber(id) == ParseDigits(SubSeq(id, 4, Len(id)))

\* a run that got as far as allocating an identifier
Allocated(p) == feature_id[p] # << >>

\* a run that returned from generate_feature and ended
Completed(p) == pc[p] = "exited" /\ exit[p].kind = "end"

\* the two files of an artifact, as paths under the root
ArtifactFiles(id) == { << id, SpecFile >>, << id, ReadmeFile >> }

\* `word` occurs in `t` with each letter in either case, stated without Lower
EitherCase(c) ==
  { c } \cup { UpperLetters[i] : i \in { k \in 1..26 : LowerLetters[k] = c } }

OccursAnyCase(t, word) ==
  \E i \in 1..(Len(t) - Len(word) + 1) :
    \A k \in 1..Len(word) : t[i + k - 1] \in EitherCase(word[k])

Triggers == << account, manage, analytics >>

TriggersIn(t) == { k \in 1..3 : OccursAnyCase(t, Triggers[k]) }

TriggerChecklists == << AuthChecklist, CrudChecklist, DashboardChecklist >>

\* the checklist of a text holding the triggers `found` when the triggers
\* are tested in the order `order`
RECURSIVE ChecklistInOrder(_, _)
ChecklistInOrder(found, order) ==
  IF order = << >> THEN GenericChecklist
  ELSE IF Head(order) \in found THEN TriggerChecklists[Head(order)]
  ELSE ChecklistInOrder(found, Tail(order))

TestOrders ==
  { o \in [ 1..3 -> 1..3 ] : \A i, j \in 1..3 : o[i] = o[j] => i = j }

\* ------------------------------------------------------------------------
\* C1 (as claimed): of two runs of generate_feature against one root, the
\* second begun after the first completed and no third run having
\* allocated anything, the later identifier's sequence number is strictly
\* greater than the earlier one's, whatever the dates and whatever feat_*
\* entries the root held at first.
C1_StrictlyIncreasing ==
  \A p, q \in Procs :
    ( /\ Allocated(q)
      /\ p \in doneBefore[q]
      /\ \A r \in Procs \ {p, q} : ~Allocated(r) )
    => SequenceNumber(feature_id[q]) > SequenceNumber(feature_id[p])

\* ------------------------------------------------------------------------
\* C2: two concurrent runs that both counted the same feat_* entries on the
\* same date hold the same identifier; when one of them has created the
\* directory, the other's mkdir does not fail; and when both have ended,
\* both have written feature_spec.json and README.md into that one directory.
SameCount(p, q) ==
  /\ Allocated(p) /\ Allocated(q)
  /\ GlobFeat(existedAtStart[p]) = GlobFeat(existedAtStart[q])
  /\ feature_id[p][2] = feature_id[q][2]

C5_NeverOverwrites ==
  \A q \in Procs : \A p \in doneBefore[q] : \A w \in touched[q] :
    /\ w[1] \notin existedAtStart[q]
    /\ w[1] # feature_id[p]

\* ------------------------------------------------------------------------
\* C6 (as claimed): a completed run has created exactly one entry under the
\* root, the directory named by its identifier, which holds exactly
\* feature_spec.json and README.md, and it has written no other file.
C6_OneNewDirectory ==
  \A p \in Procs :
    Completed(p) =>
      /\ created[p] \ { << "projects" >> } = { feature_id[p] }
      /\ feature_id[p] \notin existedAtStart[p]
      /\ DOMAIN fs[feature_id[p]].files = { SpecFile, ReadmeFile }
      /\ touched[p] = ArtifactFiles(feature_id[p])

\* ------------------------------------------------------------------------
\* C7: a run without the idea argument ends with the usage exit, status
\* non-zero, having printed only the usage lines, constructed no agent,
\* allocated no identifier and created or written nothing; a run with
\* the idea argument never takes the usage exit.
C7_UsageExit ==
  \A p \in Procs :
    /\ ( Len(argv[p]) < 2 /\ pc[p] = "exited" ) =>
         /\ exit[p].kind = "usage"
         /\ exit[p].status # 0
         /\ stdout[p] = << "usage", "example" >>
         /\ ~agent[p]
         /\ ~Allocated(p)
         /\ feature_data[p] = << >>
         /\ created[p] = {}
         /\ touched[p] = {}
    /\ Len(argv[p]) >= 2 => exit[p].kind # "usage"

\* C7's case: one run took the usage exit, another ran with an idea to its end
C7_Witness ==
  \E p, q \in Procs :
    /\ Len(argv[p]) < 2 /\ exit[p].kind = "usage"
    /\ Len(argv[q]) >= 2 /\ Completed(q)

\* ------------------------------------------------------------------------
\* C10: in each run the identifier is allocated, then the directory made,
\* then the record built, then feature_spec.json written and closed, then
\* README.md written.  So a run that has built its record has its
\* directory in the root, counted by the glob; a run that has opened a
\* file has built its record; a run that has opened README.md has closed
\* feature_spec.json; and in a directory this run created and only this
\* run wrote, README.md exists only beside the complete feature_spec.json.
StagesAfter(stage) ==
  CASE stage = "mkdir"        -> { "generate", "open_spec", "dump_spec", "open_readme",
                                   "write_readme", "finish" }
    [] stage = "generate"     -> { "open_spec", "dump_spec", "open_readme",
                                   "write_readme", "finish" }
    [] stage = "dump_spec"    -> { "open_readme", "write_readme", "finish" }

After(p, stage) == pc[p] \in StagesAfter(stage) \/ Completed(p)

Writers(dir) == { p \in Procs : \E w \in touched[p] : w[1] = dir }

C10_StepOrder ==
  \A p \in Procs :
    /\ After(p, "mkdir") =>
         /\ Allocated(p)
         /\ feature_id[p] \in GlobFeat(DOMAIN fs)
         /\ fs[feature_id[p]].kind = "dir"
    /\ feature_data[p] # << >> <=> After(p, "generate")
    /\ After(p, "generate") => After(p, "mkdir")
    /\ touched[p] # {} => After(p, "generate")
    /\ << feature_id[p], ReadmeFile >> \in touched[p] =>
         /\ << feature_id[p], SpecFile >> \in touched[p]
         /\ After(p, "dump_spec")
    /\ \A d \in created[p] \ { << "projects" >> } :
         ( Writers(d) = {p} /\ ReadmeFile \in DOMAIN fs[d].files ) =>
           /\ SpecFile \in DOMAIN fs[d].files
           /\ fs[d].files[SpecFile] = << feature_data[p] >>

\* C10's case: a run alone in the directory it created has written README.md
C10_Witness ==
  \E p \in Procs :
    /\ feature_id[p] \in created[p]
    /\ Writers(feature_id[p]) = {p}
    /\ ReadmeFile \in DOMAIN fs[feature_id[p]].files
    /\ fs[feature_id[p]].files[ReadmeFile] = << GenerateReadme(feature_data[p]) >>

\* ------------------------------------------------------------------------
\* helpers of the properties of the generators ---------------------------
Generated == gpc \in { "generated", "rendered" }

TableNames(schema) == [ i \in 1..Len(schema.tables) |-> schema.tables[i].name ]

\* C3 (as claimed): for a non-empty idea and any tech-stack argument the
\* record holds six stories, four technical requirement rows, seven
\* endpoints and the tables users, items in that order.
C3_FourRequirementRows ==
  ( Generated /\ text # << >> ) =>
    /\ Len(data.user_stories) = 6
    /\ Len(data.technical_requirements) = 4
    /\ Len(data.api_specification.endpoints) = 7
    /\ TableNames(data.database_schema) = << "users", "items" >>

\* C3 (amended): for a non-empty idea and any tech-stack argument the
\* record holds six stories, six technical requirement rows, seven
\* endpoints and the tables users, items in that order.
C3_Counts ==
  ( Generated /\ text # << >> ) =>
    /\ Len(data.user_stories) = 6
    /\ Len(data.technical_requirements) = 6
    /\ Len(data.api_specification.endpoints) = 7
    /\ TableNames(data.database_schema) = << "users", "items" >>

\* C3's case: a record generated from a non-empty idea with a tech stack given
C3_Witness ==
  /\ gpc = "generated"
  /\ text # << >>
  /\ tech = << "React, Node.js" >>
  /\ data.idea = text
  /\ Len(data.technical_requirements) = 6

\* ------------------------------------------------------------------------
\* C4: the checklist stored for a story is the authentication checklist
\* (five items) when its action holds "account" in any case; otherwise the
\* CRUD checklist (five items) when it holds "manage"; otherwise the
\* dashboard checklist (four items) when it holds "analytics"; otherwise
\* the generic checklist (four items); and the block keeps the action text.
C4_Precedence ==
  gpc = "probed" =>
    LET block == criteria["US-001"]
        found == TriggersIn(text)
    IN  /\ DOMAIN criteria = { "US-001" }
        /\ block.story = text
        /\ 1 \in found => block.criteria = AuthChecklist /\ Len(block.criteria) = 5
        /\ ( 1 \notin found /\ 2 \in found ) =>
             block.criteria = CrudChecklist /\ Len(block.criteria) = 5
        /\ ( 1 \notin found /\ 2 \notin found /\ 3 \in found ) =>
             block.criteria = DashboardChecklist /\ Len(block.criteria) = 4
        /\ found = {} => block.criteria = GenericChecklist /\ Len(block.criteria) = 4

\* C4's case: an action text holding both "manage" and, later and in
\* capitals, "account" got the authentication checklist
C4_Witness ==
  /\ gpc = "probed"
  /\ text = Pieces[3] \o Pieces[2]
  /\ TriggersIn(text) = { 1, 2 }
  /\ criteria["US-001"].criteria = AuthChecklist

\* ------------------------------------------------------------------------
\* C8 (as claimed): for any idea, no generated story's action holds more
\* than one trigger word, so every order of the tests gives every story
\* the checklist it has.
C8_NoStoryMatchesTwo ==
  Generated =>
    \A i \in 1..Len(data.user_stories) :
      LET story == data.user_stories[i]
          found == TriggersIn(story.action)
      IN  /\ Cardinality(found) <= 1
          /\ \A order \in TestOrders :
               ChecklistInOrder(found, order)
                 = data.acceptance_criteria[story.id].criteria

\* C8 (amended): stories US-002 to US-006 hold at most one trigger word
\* each and get the same checklist under every order of the tests; story
\* US-001 holds exactly the trigger words the idea holds, so it holds more
\* than one exactly when the idea does.
C8_FixedStoriesMatchOne ==
  Generated =>
    /\ Len(data.user_stories) = 6
    /\ TriggersIn(data.user_stories[1].action) = TriggersIn(text)
    /\ \A i \in 2..6 :
         LET story == data.user_stories[i]
             found == TriggersIn(story.action)
         IN  /\ Cardinality(found) <= 1
             /\ \A order \in TestOrders :
                  ChecklistInOrder(found, order)
                    = data.acceptance_criteria[story.id].criteria

\* C8's case: an idea holding two trigger words, so that US-001 holds two
\* and the order of the tests decides its checklist
C8_Witness ==
  /\ gpc = "generated"
  /\ Cardinality(TriggersIn(text)) = 2
  /\ Cardinality(TriggersIn(data.user_stories[1].action)) = 2
  /\ \E order \in TestOrders :
       ChecklistInOrder(TriggersIn(data.user_stories[1].action), order)
         # data.acceptance_criteria["US-001"].criteria

\* ------------------------------------------------------------------------
\* helpers of C9: the lines of one kind, and the part of the document
\* from one story heading up to the next heading or the endpoint section
LinesWith(lines, field) == SelectSeq(lines, LAMBDA l : field \in DOMAIN l)

IndexesWith(lines, field) == { i \in 1..Len(lines) : field \in DOMAIN lines[i] }

\* the position of the n-th story heading
HeadingAt(lines, n) ==
  CHOOSE i \in IndexesWith(lines, "story") :
    Cardinality({ j \in IndexesWith(lines, "story") : j <= i }) = n

FirstEndpointLine(lines) ==
  CHOOSE i \in IndexesWith(lines, "method") :
    \A j \in IndexesWith(lines, "method") : i <= j

StorySection(lines, n) ==
  SubSeq(lines, HeadingAt(lines, n),
         ( IF n < Cardinality(IndexesWith(lines, "story"))
             THEN HeadingAt(lines, n + 1)
             ELSE FirstEndpointLine(lines) ) - 1)

\* C9: the document lists exactly the first four stories of the record in
\* order, each with its role, action, benefit and points and followed by
\* the whole checklist stored under its identifier; then every endpoint
\* of the record in order with method, path and description; stories five
\* and six get no heading and no checklist.
C9_ReadmeListing ==
  gpc = "rendered" =>
    LET stories   == data.user_stories
        endpoints == data.api_specification.endpoints
        heads     == LinesWith(readme, "story")
    IN  /\ Len(heads) = 4
        /\ \A n \in 1..4 :
             LET section == StorySection(readme, n)
                 checks  == LinesWith(section, "check")
                 wanted  == data.acceptance_criteria[stories[n].id].criteria
             IN  /\ heads[n].story = stories[n].id
                 /\ LinesWith(section, "action")
                      = << [ role |-> stories[n].role, action |-> stories[n].action ] >>
                 /\ LinesWith(section, "benefit") = << [ benefit |-> stories[n].benefit ] >>
                 /\ LinesWith(section, "points") = << [ points |-> stories[n].story_points ] >>
                 /\ checks = [ i \in 1..Len(wanted) |-> [ check |-> wanted[i] ] ]
        /\ \A l \in { readme[i] : i \in IndexesWith(readme, "story") } :
             l.story \notin { stories[5].id, stories[6].id }
        /\ Len(LinesWith(readme, "check"))
             = Len(data.acceptance_criteria[stories[1].id].criteria)
               + Len(data.acceptance_criteria[stories[2].id].criteria)
               + Len(data.acceptance_criteria[stories[3].id].criteria)
               + Len(data.acceptance_criteria[stories[4].id].criteria)
        /\ LinesWith(readme, "method")
             = [ i \in 1..Len(endpoints) |->
                   [ method |-> endpoints[i].method, path |-> endpoints[i].path ] ]
        /\ LinesWith(readme, "description")
             = [ i \in 1..Len(endpoints) |-> [ description |-> endpoints[i].description ] ]
        /\ \A i \in IndexesWith(readme, "story") : i < FirstEndpointLine(readme)

\* C9's case: a document rendered from a record of six stories whose first
\* story got the five-item authentication checklist
C9_Witness ==
  /\ gpc = "rendered"
  /\ Len(data.user_stories) = 6
  /\ data.acceptance_criteria["US-001"].criteria = AuthChecklist
  /\ Len(LinesWith(readme, "story")) = 4
  /\ Len(LinesWith(readme, "check")) = 19

====
